---- MODULE Spec2Model ----
(***************************************************************************)
(* Model of src/main.py: MDPCellularSimulation (agent store, resource      *)
(* pools, Q-table, step / train / replenish / reset) and the tick driver   *)
(* and event handlers of main().                                           *)
(*                                                                         *)
(* Python dicts keep insertion order and the tick driver iterates in that  *)
(* order, so the agent store is a sequence of entries with distinct        *)
(* positions.  Random draws are nondeterministic choices.                  *)
(*                                                                         *)
(* The grid and every count that is measured against the grid are scaled   *)
(* down (the program runs 20 x 20 with 200/100, 50/20 and 10/5 tiles, 3 or *)
(* 5 seeded cells, 500 episodes of 100 steps); the health, money and       *)
(* reward arithmetic keeps the program's numbers.                          *)
(***************************************************************************)
EXTENDS Integers, FiniteSets, Sequences, TLC

\* ---- scaled sizes (bounds of the model) ----
Width == 2
Height == 1
\* main.py:167-168 generate_resources(200), generate_resources(100)
TrainFoods == 1
TrainMoney == 2
\* main.py:176, 301 replenish_resources(food_threshold=10, money_threshold=5)
FoodThreshold == 1
MoneyThreshold == 2
\* main.py:202-203 generate_resources(50), generate_resources(20)
ResetFoods == 1
ResetMoney == 2
\* main.py:254 range(3), main.py:206 range(3), main.py:328 range(5)
InitialCells == 1
ResetCells == 1
ClearCells == 1
\* main.py:263 train(episodes=500), main.py:178 range(100)
Episodes == 2
StepsPerEpisode == 1
\* number of ticks and of user events explored
MaxTicks == 1
MaxEvents == 2
\* number of ticks explored in the runs without user edits (StarveSpec)
StarveTicks == 11
\* generate_resources is called with every count up to the capacity plus this
ExtraCount == 1

\* ---- program constants ----
SeedHealth == 10
SeedMoney == 5
DefaultHealth == 10
DefaultMoney == 0
FoodHealth == 5
MoneyGain == 1
TickCost == 1
\* rewards are kept in tenths: -0.2 is -2, health / 10 is health, 10 is 100, 5 is 50
MoveCost10 == 2
FoodReward10 == 100
MoneyReward10 == 50
\* GAMMA and LEARNING_RATE in tenths
Gamma10 == 9
LearningRate10 == 1
\* Q-values are kept in units of 10^-6 and EPSILON in units of 10^-7, rounded down:
\* exact for three chained updates of an estimate and for three episodes
QUnit == 10 ^ 6
EpsUnit == 10 ^ 7
EpsilonDecay100 == 99
\* sim.train(episodes=500)
TrainEpisodes == 500

VARIABLES
    states,        \* self.states: sequence of [pos, health, money], insertion order
    foods,         \* self.foods
    money_tiles,   \* self.money_tiles
    q_table,       \* self.q_table: state key -> (action -> estimate)
    EPSILON,       \* self.EPSILON
    pc,            \* position of main(): "seed", "train", "episode", "loop", "tick",
                   \* "cleared" (inside the key c handler), "quit"
    playing,       \* main's playing flag
    episode,       \* episodes of train() started so far
    cur,           \* train's local `state` (a position)
    steps,         \* steps of the running episode done so far
    new_states,    \* the tick driver's new_states
    tick_i,        \* index of the next snapshot item the tick driver handles
    tick_n,        \* length of the snapshot list(sim.states.items())
    ticks,         \* ticks run so far
    events,        \* user events handled so far
    last,          \* the latest call of step and what the driver did with it
    gen_pc,        \* position inside generate_resources: "idle", "loop", "returned"
    gen_count,     \* generate_resources' argument count
    resources,     \* generate_resources' local set
    gen_target     \* the pool the caller assigns the returned set to

vars == <<states, foods, money_tiles, q_table, EPSILON, pc, playing, episode, cur, steps,
          new_states, tick_i, tick_n, ticks, events, last,
          gen_pc, gen_count, resources, gen_target>>

genVars == <<gen_pc, gen_count, resources, gen_target>>

Grid == (0 .. Width - 1) \X (0 .. Height - 1)

Capacity == Width * Height

\* self.actions
actions == << <<0, 1>>, <<0, -1>>, <<1, 0>>, <<-1, 0>>, <<0, 0>> >>

ActionSet == {actions[i] : i \in DOMAIN actions}

\* ---- dict operations on the agent store ----
Keys(d) == {d[i].pos : i \in DOMAIN d}

IndexOf(d, p) == CHOOSE i \in DOMAIN d : d[i].pos = p

Get(d, p) == d[IndexOf(d, p)]

\* d[p] = {'health': h, 'money': m}: in place when p is a key, appended otherwise
Put(d, p, h, m) ==
    IF p \in Keys(d)
    THEN [d EXCEPT ![IndexOf(d, p)] = [pos |-> p, health |-> h, money |-> m]]
    ELSE Append(d, [pos |-> p, health |-> h, money |-> m])

\* del d[p]
Del(d, p) == SelectSeq(d, LAMBDA e : e.pos # p)

Max(a, b) == IF a >= b THEN a ELSE b

\* the bounds test with <= for <
is_valid_state_Inclusive(p) == 0 <= p[1] /\ p[1] <= Width /\ 0 <= p[2] /\ p[2] <= Height

is_valid_state(p) == 0 <= p[1] /\ p[1] < Width /\ 0 <= p[2] /\ p[2] < Height

\* (random.randint(0, self.width - 1), random.randint(0, self.height - 1))
RandomPositions == {<<x, y>> : x \in 0 .. Width - 1, y \in 0 .. Height - 1}

\* the values generate_resources(count) can return
generate_resources(count) == {S \in SUBSET RandomPositions : Cardinality(S) = count}

\* ---- step ----
\* the position step returns
StepNext(state, action) ==
    LET raw == <<state[1] + action[1], state[2] + action[2]>>
    IN IF is_valid_state(raw) THEN raw ELSE state

\* step crediting the tiles to the entry at the next position
StepStates_CreditNext(sts, fds, mts, state, action) ==
    LET nxt == <<state[1] + action[1], state[2] + action[2]>>
        tgt == IF 0 <= nxt[1] /\ nxt[1] < Width /\ 0 <= nxt[2] /\ nxt[2] < Height
               THEN nxt ELSE state
        s1 == IF tgt \in Keys(sts) THEN sts ELSE Put(sts, tgt, DefaultHealth, DefaultMoney)
        i == IndexOf(s1, tgt)
        s2 == IF tgt \in fds THEN [s1 EXCEPT ![i].health = @ + FoodHealth] ELSE s1
    IN IF tgt \in mts THEN [s2 EXCEPT ![i].money = @ + MoneyGain] ELSE s2

\* self.states after step: the default entry at an unoccupied next position,
\* then the tiles at the next position credited to the entry at `state`
StepStates(sts, fds, mts, state, action) ==
    LET nxt == StepNext(state, action)
        s1 == IF nxt \in Keys(sts) THEN sts ELSE Put(sts, nxt, DefaultHealth, DefaultMoney)
        i == IndexOf(s1, state)
        s2 == IF nxt \in fds THEN [s1 EXCEPT ![i].health = @ + FoodHealth] ELSE s1
    IN IF nxt \in mts THEN [s2 EXCEPT ![i].money = @ + MoneyGain] ELSE s2

StepFoods_KeepTile(fds, state, action) == fds

StepFoods(fds, state, action) == fds \ {StepNext(state, action)}

StepMoney(mts, state, action) == mts \ {StepNext(state, action)}

\* compute_reward(state, action, next_state) against the given store and pools, in tenths
compute_reward(sts, fds, mts, state, action, next_state) ==
    (IF action # <<0, 0>> THEN 0 - MoveCost10 ELSE 0)
    + Get(sts, state).health
    + (IF next_state \in fds THEN FoodReward10 ELSE 0)
    + (IF next_state \in mts THEN MoneyReward10 ELSE 0)

\* the reward step returns: compute_reward runs after the tiles are consumed
StepReward(sts, fds, mts, state, action) ==
    compute_reward(StepStates(sts, fds, mts, state, action),
                   StepFoods(fds, state, action),
                   StepMoney(mts, state, action),
                   state, action, StepNext(state, action))

\* ---- Q-table ----
ZeroRow == [a \in ActionSet |-> 0]

\* get_state_key(position): the entry's health and money, 0 and 0 without an entry
get_state_key(sts, p) ==
    IF p \in Keys(sts)
    THEN <<p[1], p[2], Get(sts, p).health, Get(sts, p).money>>
    ELSE <<p[1], p[2], 0, 0>>

\* if key not in self.q_table: self.q_table[key] = {a: 0.0 for a in self.actions}
WithRow(q, k) ==
    IF k \in DOMAIN q THEN q
    ELSE [x \in DOMAIN q \cup {k} |-> IF x = k THEN ZeroRow ELSE q[x]]

RowMax(row) == CHOOSE v \in {row[a] : a \in ActionSet} : \A a \in ActionSet : row[a] <= v

\* choose_action: the table it leaves and the actions it can return
ChooseTable(q, sts, state) == WithRow(q, get_state_key(sts, state))

best_actions_Min(q, k) == {a \in ActionSet : \A b \in ActionSet : q[k][a] <= q[k][b]}

best_actions(q, k) == {a \in ActionSet : q[k][a] = RowMax(q[k])}

ChooseReturns(q, sts, state, explore) ==
    IF explore THEN ActionSet
    ELSE best_actions(ChooseTable(q, sts, state), get_state_key(sts, state))

q_learning_update_NoNext(q, sts, state, action, reward10, next_state) ==
    LET state_key == get_state_key(sts, state)
        next_state_key == get_state_key(sts, next_state)
        q1 == WithRow(WithRow(q, state_key), next_state_key)
        current_q == q1[state_key][action]
        new_q == current_q
                 + (LearningRate10 * (reward10 * (QUnit \div 10) - current_q)) \div 10
    IN [q1 EXCEPT ![state_key][action] = new_q]

\* q_learning_update(state, action, reward, next_state) run against the store sts
q_learning_update(q, sts, state, action, reward10, next_state) ==
    LET state_key == get_state_key(sts, state)
        next_state_key == get_state_key(sts, next_state)
        q1 == WithRow(WithRow(q, state_key), next_state_key)
        current_q == q1[state_key][action]
        max_next_q == RowMax(q1[next_state_key])
        new_q == current_q
                 + (LearningRate10 * (reward10 * (QUnit \div 10)
                                      + (Gamma10 * max_next_q) \div 10
                                      - current_q)) \div 10
    IN [q1 EXCEPT ![state_key][action] = new_q]

\* ---- replenish_resources ----
\* the pools one call of replenish_resources can leave
Replenished(pool, threshold) ==
    IF Cardinality(pool) < threshold
    THEN {pool \cup new : new \in generate_resources(threshold - Cardinality(pool))}
    ELSE {pool}

\* ---- seeding loops: for _ in range(n): states[random pos] = {10, 5} ----
RECURSIVE SeedAll(_, _)
SeedAll(d, ps) ==
    IF ps = <<>> THEN d
    ELSE SeedAll(Put(d, Head(ps), SeedHealth, SeedMoney), Tail(ps))

Draws(n) == [1 .. n -> RandomPositions]

NoStep == [kind |-> "none"]

\* the tiles the agents of the running tick have consumed so far (history only)
Claimed(l, field) == IF l.kind = "tick" THEN l[field] ELSE {}

Init ==
    /\ states = <<>>
    /\ foods = {}
    /\ money_tiles = {}
    /\ q_table = <<>>
    /\ EPSILON = EpsUnit \div 10
    /\ pc = "seed"
    /\ playing = FALSE
    /\ episode = 0
    /\ cur = <<0, 0>>
    /\ steps = 0
    /\ new_states = <<>>
    /\ tick_i = 0
    /\ tick_n = 0
    /\ ticks = 0
    /\ events = 0
    /\ last = NoStep
    /\ gen_pc = "idle"
    /\ gen_count = 0
    /\ resources = {}
    /\ gen_target = "foods"

\* main.py:254-259: the initial cells placed before training
SeedInitial ==
    /\ pc = "seed"
    /\ \E ps \in Draws(InitialCells) : states' = SeedAll(states, ps)
    /\ pc' = "train"
    /\ UNCHANGED <<genVars, q_table, EPSILON, foods, money_tiles, playing, episode,
                   cur, steps, new_states, tick_i, tick_n, ticks, events, last>>

\* train, lines 167-168: the training pools
TrainBegin ==
    /\ pc = "train"
    /\ foods' \in generate_resources(TrainFoods)
    /\ money_tiles' \in generate_resources(TrainMoney)
    /\ pc' = "episode"
    /\ UNCHANGED <<genVars, q_table, EPSILON, states, playing, episode, cur, steps,
                   new_states, tick_i, tick_n, ticks, events, last>>

\* line 172 with the floor dropped
EpsilonDecay_NoFloor(e) == (e * EpsilonDecay100) \div 100

\* line 172: max(0.01, self.EPSILON * 0.99)
EpsilonDecay(e) == Max(EpsUnit \div 100, (e * EpsilonDecay100) \div 100)

\* train, lines 170-176: the head of one episode, for the first bound episodes, the
\* positions replenish_resources draws being among cells
EpisodeBeginUpTo(bound, cells) ==
    /\ pc = "episode"
    /\ episode = 0 \/ steps = StepsPerEpisode
    /\ episode < bound
    /\ episode' = episode + 1
    /\ steps' = 0
    /\ cur' \in Keys(states)
    /\ foods' \in {f \in Replenished(foods, FoodThreshold) : f \ foods \subseteq cells}
    /\ money_tiles' \in {m \in Replenished(money_tiles, MoneyThreshold) :
                            m \ money_tiles \subseteq cells}
    /\ EPSILON' = EpsilonDecay(EPSILON)
    /\ last' = NoStep
    /\ UNCHANGED <<genVars, states, q_table, pc, playing, new_states, tick_i, tick_n,
                   ticks, events>>

EpisodeBegin == EpisodeBeginUpTo(Episodes, Grid)

\* train, lines 178-183: one step of the episode
TrainStepWith(choices) ==
    /\ pc = "episode"
    /\ episode > 0
    /\ steps < StepsPerEpisode
    /\ \E explore \in BOOLEAN :
       \E action \in ChooseReturns(q_table, states, cur, explore) \cap choices :
        /\ states' = StepStates(states, foods, money_tiles, cur, action)
        /\ q_table' = q_learning_update(ChooseTable(q_table, states, cur),
                                        StepStates(states, foods, money_tiles, cur, action),
                                        cur, action,
                                        StepReward(states, foods, money_tiles, cur, action),
                                        StepNext(cur, action))
        /\ foods' = StepFoods(foods, cur, action)
        /\ money_tiles' = StepMoney(money_tiles, cur, action)
        /\ cur' = StepNext(cur, action)
        /\ last' = [kind |-> "train", pos |-> cur, action |-> action, explore |-> explore,
                    next |-> StepNext(cur, action),
                    health |-> Get(states, cur).health,
                    money |-> Get(states, cur).money,
                    food |-> StepNext(cur, action) \in foods,
                    tile |-> StepNext(cur, action) \in money_tiles,
                    reward |-> StepReward(states, foods, money_tiles, cur, action),
                    kept |-> TRUE]
    /\ steps' = steps + 1
    /\ UNCHANGED <<genVars, EPSILON, pc, playing, episode, new_states, tick_i, tick_n,
                   ticks, events>>

TrainStep == TrainStepWith(ActionSet)

\* train returns after the last episode and main enters its loop
TrainEnd ==
    /\ pc = "episode"
    /\ episode = Episodes
    /\ steps = StepsPerEpisode
    /\ pc' = "loop"
    /\ steps' = 0
    /\ last' = NoStep
    /\ UNCHANGED <<genVars, q_table, EPSILON, states, foods, money_tiles, playing,
                   episode, cur, new_states, tick_i, tick_n, ticks, events>>

\* main.py:283-284: a tick starts on the snapshot list(sim.states.items())
TickBeginUpTo(bound) ==
    /\ pc = "loop"
    /\ playing
    /\ ticks < bound
    /\ pc' = "tick"
    /\ new_states' = <<>>
    /\ tick_i' = 1
    /\ tick_n' = Len(states)
    /\ ticks' = ticks + 1
    /\ last' = NoStep
    /\ UNCHANGED <<genVars, q_table, EPSILON, states, foods, money_tiles, playing,
                   episode, cur, steps, events>>

\* main.py:284-296: one snapshot item: choose_action, step, and the commit
TickAgentWith(choices) ==
    /\ pc = "tick"
    /\ tick_i <= tick_n
    /\ LET pos == states[tick_i].pos IN
       \E explore \in BOOLEAN :
       \E action \in ChooseReturns(q_table, states, pos, explore) \cap choices :
        LET next_pos == StepNext(pos, action)
            after == StepStates(states, foods, money_tiles, pos, action)
            state == after[tick_i]
        IN
        /\ states' = after
        /\ q_table' = ChooseTable(q_table, states, pos)
        /\ foods' = StepFoods(foods, pos, action)
        /\ money_tiles' = StepMoney(money_tiles, pos, action)
        /\ new_states' =
              IF state.health > 0
              THEN Put(new_states, next_pos, Max(0, state.health - TickCost), state.money)
              ELSE new_states
        /\ last' = [kind |-> "tick", pos |-> pos, action |-> action, explore |-> explore,
                    next |-> next_pos,
                    health |-> states[tick_i].health,
                    money |-> states[tick_i].money,
                    food |-> next_pos \in foods,
                    tile |-> next_pos \in money_tiles,
                    reward |-> StepReward(states, foods, money_tiles, pos, action),
                    kept |-> state.health > 0,
                    eaten |-> Claimed(last, "eaten") \cup ({next_pos} \cap foods),
                    banked |-> Claimed(last, "banked") \cup ({next_pos} \cap money_tiles)]
    /\ tick_i' = tick_i + 1
    /\ UNCHANGED <<genVars, EPSILON, pc, playing, episode, cur, steps, tick_n, ticks,
                   events>>

TickBegin == TickBeginUpTo(MaxTicks)

TickAgent == TickAgentWith(ActionSet)

\* main.py:299-301: the store is replaced and the pools are replenished
TickEnd ==
    /\ pc = "tick"
    /\ tick_i > tick_n
    /\ states' = new_states
    /\ foods' \in Replenished(foods, FoodThreshold)
    /\ money_tiles' \in Replenished(money_tiles, MoneyThreshold)
    /\ pc' = "loop"
    /\ new_states' = <<>>
    /\ tick_i' = 0
    /\ tick_n' = 0
    /\ last' = NoStep
    /\ UNCHANGED <<genVars, q_table, EPSILON, playing, episode, cur, steps, ticks,
                   events>>

\* main.py:308-320: a mouse click toggles the cell under the pointer
Click ==
    /\ pc = "loop"
    /\ events < MaxEvents
    /\ \E cell_pos \in Grid :
        states' = IF cell_pos \in Keys(states)
                  THEN Del(states, cell_pos)
                  ELSE Put(states, cell_pos, SeedHealth, SeedMoney)
    /\ events' = events + 1
    /\ UNCHANGED <<genVars, q_table, EPSILON, foods, money_tiles, pc, playing, episode,
                   cur, steps, new_states, tick_i, tick_n, ticks, last>>

\* main.py:323-324: space toggles playing
KeySpace ==
    /\ pc = "loop"
    /\ playing' = ~playing
    /\ UNCHANGED <<genVars, q_table, EPSILON, states, foods, money_tiles, pc, episode,
                   cur, steps, new_states, tick_i, tick_n, ticks, events, last>>

\* reset_environment without self.states.clear()
reset_environment_states_NoClear == {SeedAll(states, ps) : ps \in Draws(ResetCells)}

\* reset_environment, lines 199-211: the store it can leave
reset_environment_states == {SeedAll(<<>>, ps) : ps \in Draws(ResetCells)}

\* main.py:325-326: key c calls reset_environment
KeyC ==
    /\ pc = "loop"
    /\ events < MaxEvents
    /\ states' \in reset_environment_states
    /\ foods' \in generate_resources(ResetFoods)
    /\ money_tiles' \in generate_resources(ResetMoney)
    /\ pc' = "cleared"
    /\ events' = events + 1
    /\ UNCHANGED <<genVars, q_table, EPSILON, playing, episode, cur, steps, new_states,
                   tick_i, tick_n, ticks, last>>

\* main.py:327-333: the handler of key c then adds cells
KeyCSeed ==
    /\ pc = "cleared"
    /\ \E ps \in Draws(ClearCells) : states' = SeedAll(states, ps)
    /\ pc' = "loop"
    /\ UNCHANGED <<genVars, q_table, EPSILON, foods, money_tiles, playing, episode,
                   cur, steps, new_states, tick_i, tick_n, ticks, events, last>>

\* main.py:305-306: QUIT ends the loop
Quit ==
    /\ pc = "loop"
    /\ pc' = "quit"
    /\ UNCHANGED <<genVars, q_table, EPSILON, states, foods, money_tiles, playing,
                   episode, cur, steps, new_states, tick_i, tick_n, ticks, events,
                   last>>

Next ==
    \/ SeedInitial
    \/ TrainBegin
    \/ EpisodeBegin
    \/ TrainStep
    \/ TrainEnd
    \/ TickBegin
    \/ TickAgent
    \/ TickEnd
    \/ Click
    \/ KeySpace
    \/ KeyC
    \/ KeyCSeed
    \/ Quit

Spec == Init /\ [][Next]_vars

\* ---- the runs in which the user only starts the simulation and every agent's
\* ---- epsilon-greedy draw comes out as stay until the last tick followed, whose draws
\* ---- are free: the same program, followed for more ticks
KeySpaceOn == ~playing /\ KeySpace

TickBeginStarve == TickBeginUpTo(StarveTicks)

TickAgentStay == TickAgentWith(IF ticks = StarveTicks THEN ActionSet ELSE {<<0, 0>>})

TrainStepStay == TrainStepWith({<<0, 0>>})

NextStarve ==
    \/ SeedInitial
    \/ TrainBegin
    \/ EpisodeBegin
    \/ TrainStepStay
    \/ TrainEnd
    \/ KeySpaceOn
    \/ TickBeginStarve
    \/ TickAgentStay
    \/ TickEnd

StarveSpec == Init /\ [][NextStarve]_vars

\* ---- the training of main line 263 alone, train(episodes=500), in the runs in which
\* ---- every draw of choose_action comes out as stay and replenish_resources draws no
\* ---- occupied cell: the same program, followed to the end of the exploration decay
EpisodeBeginDecay == EpisodeBeginUpTo(TrainEpisodes, Grid \ Keys(states))

NextEps ==
    \/ SeedInitial
    \/ TrainBegin
    \/ EpisodeBeginDecay
    \/ TrainStepStay

EpsSpec == Init /\ [][NextEps]_vars

\* ---- generate_resources statement by statement, called for either pool with any count
mainVars == <<states, q_table, EPSILON, pc, playing, episode, cur, steps,
              new_states, tick_i, tick_n, ticks, events, last>>

\* the loop test with <= for <
GenLoopTest_Inclusive(res, count) == Cardinality(res) <= count

\* while len(resources) < count
GenLoopTest(res, count) == Cardinality(res) < count

\* self.foods = self.generate_resources(n) / self.money_tiles = self.generate_resources(n)
GenCall ==
    /\ gen_pc = "idle"
    /\ \E count \in 0 .. Capacity + ExtraCount, target \in {"foods", "money_tiles"} :
        /\ gen_count' = count
        /\ gen_target' = target
    /\ resources' = {}
    /\ gen_pc' = "loop"
    /\ UNCHANGED <<mainVars, foods, money_tiles>>

\* lines 38-41: one pass of the loop, the drawn position added
GenDrawPos(pos) ==
    /\ gen_pc = "loop"
    /\ GenLoopTest(resources, gen_count)
    /\ resources' = resources \cup {pos}
    /\ UNCHANGED <<mainVars, foods, money_tiles, gen_pc, gen_count, gen_target>>

GenDraw == \E pos \in RandomPositions : GenDrawPos(pos)

\* a pass that draws a position not drawn before
GenDrawNew == \E pos \in RandomPositions \ resources : GenDrawPos(pos)

\* line 42: return resources
GenReturn ==
    /\ gen_pc = "loop"
    /\ ~GenLoopTest(resources, gen_count)
    /\ gen_pc' = "returned"
    /\ UNCHANGED <<mainVars, foods, money_tiles, gen_count, resources, gen_target>>

\* the caller's assignment of the returned set
GenAssign ==
    /\ gen_pc = "returned"
    /\ foods' = IF gen_target = "foods" THEN resources ELSE foods
    /\ money_tiles' = IF gen_target = "money_tiles" THEN resources ELSE money_tiles
    /\ gen_pc' = "idle"
    /\ UNCHANGED <<mainVars, gen_count, resources, gen_target>>

GenNext ==
    \/ GenCall
    \/ GenDraw
    \/ GenReturn
    \/ GenAssign

\* random.randint is fair: a position that can be drawn is not passed over forever
GenSpec ==
    /\ Init
    /\ [][GenNext]_vars
    /\ WF_vars(GenDrawNew)
    /\ WF_vars(GenReturn)
    /\ WF_vars(GenAssign)

\* ======================= the claims =======================

Stay == <<0, 0>>

Bonus(flag, amount) == IF flag THEN amount ELSE 0

\* C1: after every tick no agent in the store has health <= 0.
C1_NoDeadAgentAfterTick ==
    (pc = "loop" /\ ticks > 0) => \A i \in DOMAIN states : states[i].health > 0

\* what one call of replenish_resources is claimed to do to one pool
ReplenishExact(old, new, threshold) ==
    IF Cardinality(old) < threshold
    THEN /\ Cardinality(new) = threshold
         /\ old \subseteq new
         /\ Cardinality(new \ old) = threshold - Cardinality(old)
    ELSE new = old

\* C2: a replenish_resources call on a pool below its threshold leaves exactly
\* threshold positions, the old ones kept and the added ones new; a pool at or above
\* its threshold is left unchanged (here: the call that ends a tick).
C2_ReplenishReachesThreshold ==
    [][(pc = "tick" /\ pc' = "loop")
         => /\ ReplenishExact(foods, foods', FoodThreshold)
            /\ ReplenishExact(money_tiles, money_tiles', MoneyThreshold)]_vars

\* C3: in a tick, the entry committed for a surviving agent at the position step
\* returned has health = old health - 1, + 5 if that position held food, and
\* money = old money, + 1 if it held a money tile; food needs and costs no money.
C3_TickCommitArithmetic ==
    (last.kind = "tick" /\ last.kept) =>
        /\ last.next \in Keys(new_states)
        /\ Get(new_states, last.next).health
              = last.health - TickCost + Bonus(last.food, FoodHealth)
        /\ Get(new_states, last.next).money = last.money + Bonus(last.tile, MoneyGain)
        /\ last.food => last.next \notin foods
        /\ last.tile => last.next \notin money_tiles

\* C3 witness: an agent with health 10 and money 0 moves onto a food tile that is no
\* money tile and is committed there with health 14 and money 0.
C3_Witness ==
    /\ last.kind = "tick" /\ last.kept
    /\ last.health = 10 /\ last.money = 0
    /\ last.next # last.pos
    /\ last.food /\ ~last.tile
    /\ Get(new_states, last.next).health = 14
    /\ Get(new_states, last.next).money = 0

\* C4: no step of train and no step of a tick increases the number of agents in
\* the store.
C4_StepNeverAddsAgents ==
    [][(pc \in {"episode", "tick"}) => Len(states') <= Len(states)]_vars

\* C5: a tick transition that drops its agent from the store leaves the food and
\* money pools as they were before that agent's step.
C5_DroppedAgentLeavesPools ==
    [][(pc = "tick" /\ tick_i' = tick_i + 1 /\ ~last'.kept)
         => (foods' = foods /\ money_tiles' = money_tiles)]_vars

\* C6: the reward step returns is the movement penalty plus the health bonus, plus
\* 10 when the resulting position held food and plus 5 when it held a money tile
\* (tenths: 100 and 50).
C6_RewardIncludesTileBonuses ==
    last.kind # "none" =>
        last.reward = Bonus(last.action # Stay, 0 - MoveCost10)
                      + (last.health + Bonus(last.food, FoodHealth))
                      + Bonus(last.food, FoodReward10)
                      + Bonus(last.tile, MoneyReward10)

\* C7: a transition whose resulting health is <= 0 signals death (the agent is not
\* kept) and has reward exactly -100 (tenths: -1000).
C7_DeathRewardIsMinus100 ==
    (last.kind = "tick"
     /\ last.health + Bonus(last.food, FoodHealth) - TickCost <= 0)
        => (last.reward = 0 - 1000 /\ ~last.kept)

InGrid(p) == p \in Grid

\* C8: step returns p + a when that is inside the grid and p otherwise, and every
\* agent position and every food and money position stays inside the grid.
C8_ClampAndInBounds ==
    /\ last.kind # "none" =>
          LET raw == <<last.pos[1] + last.action[1], last.pos[2] + last.action[2]>>
          IN /\ last.next = IF InGrid(raw) THEN raw ELSE last.pos
             /\ last.kind = "train" => cur = last.next
             /\ (last.kind = "tick" /\ last.kept) => last.next \in Keys(new_states)
    /\ \A i \in DOMAIN states : InGrid(states[i].pos)
    /\ \A i \in DOMAIN new_states : InGrid(new_states[i].pos)
    /\ \A p \in foods \cup money_tiles : InGrid(p)
    /\ pc = "episode" => InGrid(cur)

\* C8 witness: a tick step whose move would leave the grid returned its own position.
C8_Witness ==
    /\ last.kind = "tick" /\ last.kept
    /\ last.action # Stay
    /\ last.next = last.pos
    /\ last.pos \in Keys(new_states)

C10_GenerateTerminatesExactly ==
    /\ [](gen_pc = "returned" =>
            /\ Cardinality(resources) = gen_count
            /\ \A p \in resources : InGrid(p))
    /\ [](gen_count > Capacity => gen_pc # "returned")
    /\ ((gen_pc = "loop" /\ gen_count <= Capacity) ~> gen_pc = "returned")

\* C10 witness: a call for as many positions as the grid has cells returned.
C10_Witness == gen_pc = "returned" /\ gen_count = Capacity /\ resources = Grid

\* the step taken is a call of choose_action followed by step, in the tick or in train
IsTickStep == pc = "tick" /\ tick_i' = tick_i + 1

IsTrainStep == pc = "episode" /\ steps' = steps + 1

\* the row choose_action reads for key k: the stored row, or the zero row it creates
RowOf(q, k) == IF k \in DOMAIN q THEN q[k] ELSE ZeroRow

\* C11: no train step, tick step or replenishment removes or re-initialises a row of
\* the Q-table (a train step rewrites one estimate), and reset_environment empties
\* the Q-table.
C11_QTableKeptUntilReset ==
    [][/\ (pc' # "cleared") =>
            \A k \in DOMAIN q_table :
                /\ k \in DOMAIN q_table'
                /\ \/ q_table'[k] = q_table[k]
                   \/ /\ IsTrainStep
                      /\ Cardinality({a \in ActionSet : q_table'[k][a] # q_table[k][a]}) = 1
       /\ (pc = "loop" /\ pc' = "cleared") => q_table' = <<>>]_vars

\* C12: choose_action returns one of the five actions; when it does not explore, the
\* returned action has a maximal estimate in the row of the state's key; after the call
\* the table has a row for that key over exactly the five actions, created with zeros
\* when the key was unseen, and every row that existed is unchanged.
C12_ChooseActionGreedyAndLazyRow ==
    [][LET key == get_state_key(states, last'.pos)
           row == RowOf(q_table, key)
       IN
       /\ (IsTickStep \/ IsTrainStep) =>
            /\ last'.action \in {<<0, 1>>, <<1, 0>>, <<0, -1>>, <<-1, 0>>, <<0, 0>>}
            /\ ~last'.explore => \A a \in ActionSet : row[a] <= row[last'.action]
            /\ key \in DOMAIN q_table'
            /\ DOMAIN q_table'[key] = ActionSet
       /\ IsTickStep =>
            /\ DOMAIN q_table' = DOMAIN q_table \cup {key}
            /\ \A k \in DOMAIN q_table : q_table'[k] = q_table[k]
            /\ key \notin DOMAIN q_table => \A a \in ActionSet : q_table'[key][a] = 0]_vars

\* a tick step that exploited a row whose estimates differ
C12_Witness ==
    /\ last.kind = "tick"
    /\ ~last.explore
    /\ LET key == <<last.pos[1], last.pos[2], last.health, last.money>> IN
       /\ key \in DOMAIN q_table
       /\ \E a \in ActionSet : q_table[key][a] < q_table[key][last.action]

\* C13: q_learning_update(state, action, reward, next_state) sets the estimate of
\* (key(state), action) to old + LEARNING_RATE * (reward + GAMMA * max - old), max being
\* the largest estimate in the row of key(next_state) before the write; it creates zero
\* rows for unseen keys and leaves every other estimate unchanged.  Estimates are in
\* units of 1/QUnit and each of the model's two divisions rounds down by less than a unit.
C13_QLearningUpdateRule ==
    [][IsTrainStep =>
        LET state_key == get_state_key(states', last'.pos)
            next_state_key == get_state_key(states', last'.next)
            old == RowOf(q_table, state_key)[last'.action]
            max_next == CHOOSE v \in {RowOf(q_table, next_state_key)[a] : a \in ActionSet} :
                            \A a \in ActionSet : RowOf(q_table, next_state_key)[a] <= v
            exact100 == 100 * old + LearningRate10 * (last'.reward * QUnit
                                                      + Gamma10 * max_next - 10 * old)
            new == q_table'[state_key][last'.action]
        IN
        /\ 100 * new <= exact100
        /\ exact100 < 100 * new + 200
        /\ DOMAIN q_table' = DOMAIN q_table \cup {get_state_key(states, last'.pos),
                                                   state_key, next_state_key}
        /\ \A k \in DOMAIN q_table' : \A a \in ActionSet :
              (k # state_key \/ a # last'.action) => q_table'[k][a] = RowOf(q_table, k)[a]
      ]_vars

\* a train step that moved onto a cell whose row already holds a positive estimate
C13_Witness ==
    /\ last.kind = "train"
    /\ last.pos # last.next
    /\ LET state_key == get_state_key(states, last.pos)
           next_state_key == get_state_key(states, last.next)
       IN
       /\ state_key # next_state_key
       /\ \E a \in ActionSet : q_table[next_state_key][a] > 0
       /\ q_table[state_key][last.action] # 0

\* C14: in training, the row q_learning_update writes is the row of the key choose_action
\* consulted for the same step (position, health and money as they were before the step),
\* also when the step consumes a tile.
C14_UpdateKeyIsChooseKey ==
    last.kind = "train" =>
        get_state_key(states, last.pos) = <<last.pos[1], last.pos[2], last.health, last.money>>

\* C15: a tick never merges agents: every snapshot agent that survives its step adds one
\* entry to the next store, so the number of agents after the tick is the number that
\* survived.
C15_TickNeverMergesAgents ==
    [][(IsTickStep /\ last'.kept) => Len(new_states') = Len(new_states) + 1]_vars

\* C16: an agent whose health is 0 when its tick step starts is not carried into the
\* store that the tick commits.
C16_ZeroHealthAgentIsDropped ==
    (last.kind = "tick" /\ last.health = 0) => ~last.kept

\* C17: within one tick a tile is claimed by at most one agent: an agent gains health 5
\* (money 1) exactly when the food (money) tile at its next position is still in the
\* pool, the tile leaves the pool with that step, and an agent that lands on a position
\* whose tile an earlier agent of the same tick consumed gains nothing from it.
C17_TileClaimedOncePerTick ==
    [][IsTickStep =>
        LET before == states[tick_i]
            after == states'[tick_i]
            next_pos == last'.next
        IN
        /\ after.health - before.health = Bonus(next_pos \in foods, FoodHealth)
        /\ after.money - before.money = Bonus(next_pos \in money_tiles, MoneyGain)
        /\ foods' = foods \ {next_pos}
        /\ money_tiles' = money_tiles \ {next_pos}
        /\ next_pos \in Claimed(last, "eaten") => after.health = before.health
        /\ next_pos \in Claimed(last, "banked") => after.money = before.money
      ]_vars

\* the second agent of a tick lands where the first one ate and finds no food
C17_Witness ==
    /\ last.kind = "tick"
    /\ tick_i = 3
    /\ ~last.food
    /\ last.next \in last.eaten

\* C18: EPSILON never increases and is never below 0.01; each episode of train sets it
\* to max(0.01, 0.99 * EPSILON) (in units of 1/EpsUnit, rounded down), nothing else
\* changes it, and once it is 0.01 it stays 0.01.
C18_EpsilonDecaysToFloor ==
    [][LET floor == EpsUnit \div 100 IN
       /\ EPSILON >= floor
       /\ EPSILON' >= floor
       /\ EPSILON <= EpsUnit \div 10
       /\ EPSILON' <= EPSILON
       /\ EPSILON = floor => EPSILON' = floor
       /\ IF episode' = episode + 1
          THEN \/ EPSILON' = floor /\ 99 * EPSILON < 100 * floor + 100
               \/ 100 * EPSILON' <= 99 * EPSILON /\ 99 * EPSILON < 100 * EPSILON' + 100
          ELSE EPSILON' = EPSILON]_vars

\* training has run its 500 episodes and EPSILON sits on the floor
C18_Witness ==
    /\ episode = TrainEpisodes
    /\ last.kind = "train"
    /\ EPSILON = EpsUnit \div 100

====
